---- MODULE Spec2Model ----
(***************************************************************************)
(* r.erosion: RUSLE3D / USPED erosion modelling scripts for GRASS GIS.     *)
(*                                                                         *)
(* The scripts are straight-line sequences of GRASS commands that read and *)
(* write named raster grids in one shared workspace (the mapset).  The     *)
(* model keeps the workspace, the position in the command sequence, the    *)
(* atexit registry and the exit status; every GRASS command is one action. *)
(* Cell values are kept as terms of the raster algebra, normalised by the  *)
(* identities of real arithmetic that the formulas rely on.                *)
(***************************************************************************)
EXTENDS Integers, Sequences, FiniteSets, TLC

VARIABLES opts, grids, pc, status, registered, exitCode, error, res,
          written, last, prov, trace, cleanupCalls

vars == <<opts, grids, pc, status, registered, exitCode, error, res,
          written, last, prov, trace, cleanupCalls>>

(***************************************************************************)
(* Bounds of the model.                                                    *)
(***************************************************************************)
\* cells of a grid, laid out on a line; the first and the last are border
NumCells == 3

Cells == 1..NumCells
Border == {1, NumCells}
Interior == Cells \ Border

(***************************************************************************)
(* Raster algebra: terms                                                   *)
(***************************************************************************)
Num(lit) == <<"num", lit>>
Map(name) == <<"map", name>>
Sym(id) == <<"sym", id>>
Bad == <<"bad", "">>
Null == <<"null", "">>
Zero == <<"num", "0">>
One == <<"num", "1">>

Add(a, b) == <<"add", a, b>>
Sub(a, b) == <<"sub", a, b>>
Mul(a, b) == <<"mul", a, b>>
Div(a, b) == <<"div", a, b>>
Pow(a, b) == <<"pow", a, b>>
Sin(a) == <<"sin", a>>
Cos(a) == <<"cos", a>>
Exp(a) == <<"exp", a>>

LeafOps == {"num", "map", "sym", "bad", "null"}
UnaryOps == {"sin", "cos", "exp", "aspect", "ddx", "ddy"}
BinaryOps == {"add", "sub", "mul", "div", "pow"}

\* the numeric literals that occur in the expressions of the scripts and in
\* the option values the model draws from
NumLits == {"0", "1", "1.", "1.0", "2", "5", "5.0", "10", "20", "30", "50",
            "50.0", "60.", "60", "525600.", "525600", "1000.0", "1000",
            "10000.0", "10000", "22.1", "5.14", "0.29", "0.72", "-0.05",
            "310.0", "310", "0.25", "0.1", "1.5", "1.2"}

\* the value of a literal, written without a trailing ".0" or "."
Canon(lit) ==
    CASE lit = "1." -> "1"
      [] lit = "1.0" -> "1"
      [] lit = "5.0" -> "5"
      [] lit = "50.0" -> "50"
      [] lit = "60." -> "60"
      [] lit = "525600." -> "525600"
      [] lit = "1000.0" -> "1000"
      [] lit = "10000.0" -> "10000"
      [] lit = "310.0" -> "310"
      [] OTHER -> lit

\* literals greater than zero
PositiveLits == {l \in NumLits : l \notin {"0", "-0.05"}}

IsZero(t) == t[1] = "num" /\ t[2] = "0"
IsOne(t) == t[1] = "num" /\ t[2] = "1"
IsNull(t) == t[1] = "null"
IsPositiveNum(t) == t[1] = "num" /\ t[2] \in PositiveLits

\* r.mapcalc arithmetic on one cell: a null operand gives null; otherwise
\*   x*1 = 1*x = x,  x*0 = 0*x = 0,  0/x = 0,  sin(0) = 0,  0^e = 0 (e > 0)
NormUnary(op, a) ==
    IF IsNull(a) THEN Null
    ELSE IF op = "sin" /\ IsZero(a) THEN Zero
    ELSE <<op, a>>

NormBinary(op, a, b) ==
    IF IsNull(a) \/ IsNull(b) THEN Null
    ELSE IF op = "mul" /\ (IsZero(a) \/ IsZero(b)) THEN Zero
    ELSE IF op = "mul" /\ IsOne(b) THEN a
    ELSE IF op = "mul" /\ IsOne(a) THEN b
    ELSE IF op = "div" /\ IsZero(a) /\ ~IsZero(b) THEN Zero
    ELSE IF op = "pow" /\ IsZero(a) /\ IsPositiveNum(b) THEN Zero
    ELSE <<op, a, b>>

RECURSIVE Norm(_)
Norm(t) ==
    IF t[1] = "num" THEN Num(Canon(t[2]))
    ELSE IF t[1] \in LeafOps THEN t
    ELSE IF t[1] \in UnaryOps THEN NormUnary(t[1], Norm(t[2]))
    ELSE NormBinary(t[1], Norm(t[2]), Norm(t[3]))

\* the grids an expression reads
RECURSIVE MapsOf(_)
MapsOf(t) ==
    IF t[1] = "map" THEN {t[2]}
    ELSE IF t[1] \in LeafOps THEN {}
    ELSE IF t[1] \in UnaryOps THEN MapsOf(t[2])
    ELSE MapsOf(t[2]) \cup MapsOf(t[3])

\* an expression parses when no operand was formatted from an empty string
RECURSIVE WellFormed(_)
WellFormed(t) ==
    IF t[1] = "bad" THEN FALSE
    ELSE IF t[1] \in LeafOps THEN TRUE
    ELSE IF t[1] \in UnaryOps THEN WellFormed(t[2])
    ELSE WellFormed(t[2]) /\ WellFormed(t[3])

\* the expression at cell c of workspace ws: map names replaced by cell values
RECURSIVE Subst(_, _, _)
Subst(t, ws, c) ==
    IF t[1] = "map" THEN ws[t[2]][c]
    ELSE IF t[1] \in LeafOps THEN t
    ELSE IF t[1] \in UnaryOps THEN <<t[1], Subst(t[2], ws, c)>>
    ELSE <<t[1], Subst(t[2], ws, c), Subst(t[3], ws, c)>>

Eval(t, ws, c) == Norm(Subst(t, ws, c))

\* str.format() of an option value into an expression: a number stays a
\* literal, any other non-empty text is read by r.mapcalc as a grid name
Operand(s) ==
    IF s = "" THEN Bad
    ELSE IF s \in NumLits THEN Num(s)
    ELSE Map(s)

(***************************************************************************)
(* GRASS commands as the scripts issue them                                *)
(***************************************************************************)
Command(tool, fn, line, in, outs, kinds, expr, names) ==
    [tool |-> tool, fn |-> fn, line |-> line, in |-> in, outs |-> outs,
     kinds |-> kinds, expr |-> expr, names |-> names]

\* gscript.run_command('r.mapcalc', expression="out = expr", overwrite=True)
Mapcalc(fn, line, out, expr) ==
    Command("r.mapcalc", fn, line, "", <<out>>, <<"calc">>, expr, {})

\* gscript.run_command('r.slope.aspect', elevation=..., slope=/aspect=/dx=/dy=)
SlopeAspect(fn, line, elevation, kinds, outs) ==
    Command("r.slope.aspect", fn, line, elevation, outs, kinds, Zero, {})

\* gscript.run_command('r.grow.distance', input=..., value=...)
GrowDistance(fn, line, input, value) ==
    Command("r.grow.distance", fn, line, input, <<value>>, <<"grown">>, Zero, {})

\* gscript.run_command('r.watershed', elevation=..., accumulation=..., flags="a")
Watershed(fn, line, elevation, accumulation) ==
    Command("r.watershed", fn, line, elevation, <<accumulation>>, <<"accumulation">>,
            Zero, {})

\* gscript.parse_command('g.region', flags='g')
GRegion(fn, line) ==
    Command("g.region", fn, line, "", <<>>, <<>>, Zero, {})

\* gscript.write_command('r.colors', map=..., rules='-', stdin=erosion_colors)
Colors(fn, line, map) ==
    Command("r.colors", fn, line, map, <<>>, <<>>, Zero, {})

\* gscript.run_command('g.remove', type='raster', name=[...], flags='f')
GRemove(fn, line, names) ==
    Command("g.remove", fn, line, "", <<>>, <<>>, Zero, names)

\* gscript.parse_command('r.univar', map=..., flags='g') and the print of it
Univar(fn, line, map) ==
    Command("r.univar", fn, line, map, <<>>, <<>>, Zero, {})

\* atexit.register(handler)
AtexitRegister(fn, line, handler) ==
    Command("atexit.register", fn, line, handler, <<>>, <<>>, Zero, {})

\* sys.exit(0)
SysExit(fn, line) ==
    Command("sys.exit", fn, line, "", <<>>, <<>>, Zero, {})

(***************************************************************************)
(* r.erosion.py                                                            *)
(***************************************************************************)
\* (variant) the two r_factor formulas in the other order
event_based_r_factor_swapped(rain_intensity, rain_duration) ==
    LET fn == "event_based_r_factor"
        I == Operand(rain_intensity)
        D == Operand(rain_duration)
    IN  [steps |-> <<
            Mapcalc(fn, 242, "rain_energy",
                Mul(Num("0.29"),
                    Sub(Num("1."), Mul(Num("0.72"), Exp(Mul(Num("-0.05"), I)))))),
            Mapcalc(fn, 257, "rain_volume", Mul(I, Div(D, Num("60.")))),
            Mapcalc(fn, 269, "erosivity",
                Mul(Mul(Mul(Map("rain_energy"), Map("rain_volume")), I), Num("1."))),
            Mapcalc(fn, 301, "r_factor",
                Div(Map("erosivity"), Div(D, Num("525600.")))),
            Mapcalc(fn, 283, "r_factor",
                Div(Map("erosivity"), Mul(D, Num("60.")))),
            GRemove(fn, 313, {"rain_energy", "rain_volume", "erosivity"}) >>,
         ret |-> "r_factor"]

\* event_based_r_factor(rain_intensity, rain_duration): the commands it
\* issues and the grid name it returns
event_based_r_factor(rain_intensity, rain_duration) ==
    LET fn == "event_based_r_factor"
        I == Operand(rain_intensity)
        D == Operand(rain_duration)
    IN  [steps |-> <<
            Mapcalc(fn, 242, "rain_energy",
                Mul(Num("0.29"),
                    Sub(Num("1."), Mul(Num("0.72"), Exp(Mul(Num("-0.05"), I)))))),
            Mapcalc(fn, 257, "rain_volume", Mul(I, Div(D, Num("60.")))),
            Mapcalc(fn, 269, "erosivity",
                Mul(Mul(Mul(Map("rain_energy"), Map("rain_volume")), I), Num("1."))),
            Mapcalc(fn, 283, "r_factor",
                Div(Map("erosivity"), Mul(D, Num("60.")))),
            Mapcalc(fn, 301, "r_factor",
                Div(Map("erosivity"), Div(D, Num("525600.")))),
            GRemove(fn, 313, {"rain_energy", "rain_volume", "erosivity"}) >>,
         ret |-> "r_factor"]

\* (variant) the copy issued before the slope is grown
rusle_grow_slope_reversed ==
    << Mapcalc("rusle", 349, "slope", Map("grow_slope")),
       GrowDistance("rusle", 344, "slope", "grow_slope") >>

\* (variant) the grown slope is not copied back
rusle_grow_slope_nocopy ==
    << GrowDistance("rusle", 344, "slope", "grow_slope") >>

\* rusle(), lines 343-354: the slope is grown over the null border left by
\* the moving window and copied back under its own name
rusle_grow_slope ==
    << GrowDistance("rusle", 344, "slope", "grow_slope"),
       Mapcalc("rusle", 349, "slope", Map("grow_slope")) >>

\* (variant) cos in place of sin
rusle_ls_factor_cos(m_coeff, flow_accumulation, n_coeff) ==
    Mul(Mul(Add(Operand(m_coeff), Num("1.0")),
            Pow(Div(Operand(flow_accumulation), Num("22.1")), Operand(m_coeff))),
        Pow(Div(Cos(Map("slope")), Num("5.14")), Operand(n_coeff)))

\* rusle(), lines 375-387: the expression of the topographic factor
rusle_ls_factor(m_coeff, flow_accumulation, n_coeff) ==
    Mul(Mul(Add(Operand(m_coeff), Num("1.0")),
            Pow(Div(Operand(flow_accumulation), Num("22.1")), Operand(m_coeff))),
        Pow(Div(Sin(Map("slope")), Num("5.14")), Operand(n_coeff)))

\* (variant) the conversion to kg/m^2s of lines 424-437, enabled
rusle_convert_per_second(erosion) ==
    Mapcalc("rusle", 414, erosion,
        Div(Div(Mul(Map("sedflow"), Num("1000.0")), Num("10000.0")),
            Num("31557600.0")))

\* (variant) the conversion done in place on sedflow
rusle_convert_inplace(erosion) ==
    Mapcalc("rusle", 414, "sedflow",
        Div(Mul(Map("sedflow"), Num("1000.0")), Num("10000.0")))

\* rusle(), lines 413-422: sediment flow converted from tons/ha to kg/m^2
rusle_convert(erosion) ==
    Mapcalc("rusle", 414, erosion,
        Div(Mul(Map("sedflow"), Num("1000.0")), Num("10000.0")))

\* rusle(elevation, erosion, flow_accumulation, r_factor, c_factor, k_factor,
\*       ls_factor, m_coeff, n_coeff); nsres is the local variable res
rusle(elevation, erosion, flow_accumulation, r_factor, c_factor, k_factor, ls_factor, m_coeff, n_coeff, nsres) ==
    LET fn == "rusle" IN
    << SlopeAspect(fn, 337, elevation, <<"slope">>, <<"slope">>) >>
    \o rusle_grow_slope
    \o << Watershed(fn, 357, elevation, "flowacc"),
          GRegion(fn, 363),
          Mapcalc(fn, 366, flow_accumulation, Mul(Map("flowacc"), Operand(nsres))),
          Mapcalc(fn, 376, ls_factor,
              rusle_ls_factor(m_coeff, flow_accumulation, n_coeff)),
          Mapcalc(fn, 399, "sedflow",
              Mul(Mul(Mul(Operand(r_factor), Operand(k_factor)), Operand(ls_factor)),
                  Operand(c_factor))),
          rusle_convert(erosion),
          Colors(fn, 440, erosion),
          GRemove(fn, 447, {"slope", "grow_slope", "flowacc", "sedflow"}) >>

\* (variant) the x component taken from the unconverted sediment flow
usped_qsx_unconverted ==
    Mapcalc("usped", 596, "qsx", Mul(Map("sedflow"), Cos(Map("aspect"))))

\* usped(), lines 595-601: sediment flow rate in x direction
usped_qsx ==
    Mapcalc("usped", 596, "qsx", Mul(Map("sediment_flux"), Cos(Map("aspect"))))

\* usped(), lines 603-610: sediment flow rate in y direction
usped_qsy ==
    Mapcalc("usped", 604, "qsy", Mul(Map("sediment_flux"), Sin(Map("aspect"))))

\* usped(elevation, erosion, flow_accumulation, r_factor, c_factor, k_factor,
\*       ls_factor, m_coeff, n_coeff); nsres is the local variable res
usped(elevation, erosion, flow_accumulation, r_factor, c_factor, k_factor, ls_factor, m_coeff, n_coeff, nsres) ==
    LET fn == "usped" IN
    << SlopeAspect(fn, 477, elevation, <<"slope", "aspect">>, <<"slope", "aspect">>),
       GrowDistance(fn, 485, "slope", "grow_slope"),
       Mapcalc(fn, 490, "slope", Map("grow_slope")),
       GrowDistance(fn, 496, "aspect", "grow_aspect"),
       Mapcalc(fn, 501, "aspect", Map("grow_aspect")),
       Watershed(fn, 509, elevation, "flowacc"),
       GRegion(fn, 515),
       Mapcalc(fn, 518, flow_accumulation, Mul(Map("flowacc"), Operand(nsres))),
       Mapcalc(fn, 530, ls_factor,
           Mul(Pow(Operand(flow_accumulation), Operand(m_coeff)),
               Pow(Sin(Map("slope")), Operand(n_coeff)))),
       Mapcalc(fn, 553, "sedflow",
           Mul(Mul(Mul(Operand(r_factor), Operand(k_factor)), Operand(c_factor)),
               Operand(ls_factor))),
       Mapcalc(fn, 568, "sediment_flux",
           Div(Mul(Map("sedflow"), Num("1000.0")), Num("10000.0"))),
       usped_qsx,
       usped_qsy,
       SlopeAspect(fn, 614, "qsx", <<"dx">>, <<"qsxdx">>),
       SlopeAspect(fn, 622, "qsy", <<"dy">>, <<"qsydy">>),
       GrowDistance(fn, 629, "qsxdx", "grow_qsxdx"),
       Mapcalc(fn, 634, "qsxdx", Map("grow_qsxdx")),
       GrowDistance(fn, 640, "qsydy", "grow_qsydy"),
       Mapcalc(fn, 645, "qsydy", Map("grow_qsydy")),
       Mapcalc(fn, 654, erosion, Add(Map("qsxdx"), Map("qsydy"))),
       Colors(fn, 663, erosion),
       GRemove(fn, 670, {"slope", "aspect", "flowacc", "qsx", "qsy", "qsxdx",
                         "qsydy", "grow_slope", "grow_aspect", "grow_qsxdx",
                         "grow_qsydy", "sedflow", "sediment_flux"}) >>

\* (variant) cleanup() without its try/except
cleanup_uncaught ==
    [cmd |-> GRemove("cleanup", 692,
                {"rain_volume", "rain_energy", "slope", "aspect", "flowacc",
                 "qsx", "qsy", "qsxdx", "qsydy", "grow_slope", "grow_aspect",
                 "grow_qsxdx", "grow_qsydy", "sedflow", "sediment_flux"}),
     catches |-> {}]

\* cleanup(): the g.remove it issues and the exceptions its try block catches
cleanup ==
    [cmd |-> GRemove("cleanup", 692,
                {"rain_volume", "rain_energy", "slope", "aspect", "flowacc",
                 "qsx", "qsy", "qsxdx", "qsydy", "grow_slope", "grow_aspect",
                 "grow_qsxdx", "grow_qsydy", "sedflow", "sediment_flux"}),
     catches |-> {"CalledModuleError"}]

\* main(), lines 197-207: the source of the R factor
RFactorSource(o) ==
    IF o.rain_intensity = ""
    THEN IF o.r_factor = ""
         THEN [steps |-> <<Mapcalc("main", 201, "r_factor", Operand(o.r_factor_value))>>,
               ret |-> "r_factor"]
         ELSE [steps |-> <<>>, ret |-> o.r_factor]
    ELSE event_based_r_factor(o.rain_intensity, o.rain_duration)

\* main(), lines 208-213
CFactorSource(o) ==
    IF o.c_factor = ""
    THEN [steps |-> <<Mapcalc("main", 210, "c_factor", Operand(o.c_factor_value))>>,
          ret |-> "c_factor"]
    ELSE [steps |-> <<>>, ret |-> o.c_factor]

\* main(), lines 214-219
KFactorSource(o) ==
    IF o.k_factor = ""
    THEN [steps |-> <<Mapcalc("main", 216, "k_factor", Operand(o.k_factor_value))>>,
          ret |-> "k_factor"]
    ELSE [steps |-> <<>>, ret |-> o.k_factor]

\* main(): the whole command sequence of one run with options o
main(o, nsres) ==
    LET r == RFactorSource(o)
        c == CFactorSource(o)
        k == KFactorSource(o)
    IN  r.steps \o c.steps \o k.steps
        \o (IF o.model = "rusle"
            THEN rusle(o.elevation, o.erosion, o.flow_accumulation, r.ret, c.ret,
                       k.ret, o.ls_factor, o.m_coeff, o.n_coeff, nsres)
            ELSE <<>>)
        \o (IF o.model = "usped"
            THEN usped(o.elevation, o.erosion, o.flow_accumulation, r.ret, c.ret,
                       k.ret, o.ls_factor, o.m_coeff, o.n_coeff, nsres)
            ELSE <<>>)
        \o << AtexitRegister("main", 228, "cleanup"), SysExit("main", 229) >>

(***************************************************************************)
(* r.erosion.rfactor.py                                                    *)
(***************************************************************************)
rfactor_event_based_r_factor(rain_intensity, rain_interval) ==
    LET fn == "rfactor.event_based_r_factor"
        I == Operand(rain_intensity)
        D == Operand(rain_interval)
    IN  [steps |-> <<
            Mapcalc(fn, 45, "rain_energy",
                Mul(Num("0.29"),
                    Sub(Num("1."), Mul(Num("0.72"), Exp(Mul(Num("-0.05"), I)))))),
            Mapcalc(fn, 60, "rain_volume", Mul(I, Div(D, Num("60.")))),
            Mapcalc(fn, 72, "erosivity",
                Mul(Mul(Mul(Map("rain_energy"), Map("rain_volume")), I), Num("1."))),
            Mapcalc(fn, 92, "r_factor",
                Div(Map("erosivity"), Div(D, Num("525600.")))),
            GRemove(fn, 104, {"rain_energy", "rain_volume", "erosivity"}) >>,
         ret |-> "r_factor"]

rfactor_cleanup ==
    [cmd |-> GRemove("rfactor.cleanup", 118,
                {"rain_energy", "rain_volume", "erosivity", "rain_intensity"}),
     catches |-> {"CalledModuleError"}]

rfactor_main ==
    LET r == rfactor_event_based_r_factor("rain_intensity", "5.0") IN
    << Mapcalc("rfactor.main", 16, "rain_intensity", Num("50.0")) >>
    \o r.steps
    \o << Univar("rfactor.main", 24, r.ret),
          AtexitRegister("rfactor.main", 32, "rfactor_cleanup"),
          SysExit("rfactor.main", 33) >>

(***************************************************************************)
(* The workspace and the external raster tools                             *)
(***************************************************************************)
Range(seq) == {seq[i] : i \in DOMAIN seq}

\* the workspace after the grids gs[i] are stored under the names outs[i]
WriteOuts(ws, outs, gs) ==
    [x \in DOMAIN ws \cup Range(outs) |->
        IF x \in Range(outs)
        THEN gs[CHOOSE i \in DOMAIN outs :
                    outs[i] = x /\ \A j \in DOMAIN outs : j > i => outs[j] # x]
        ELSE ws[x]]

\* g.remove -f: the named grids that exist are deleted, the others are skipped
Remove(ws, names) == [x \in DOMAIN ws \ names |-> ws[x]]

Dist(c, d) == IF c >= d THEN c - d ELSE d - c

\* r.grow.distance value=: a null cell takes the value of the nearest cell
\* that is not null, the other cells keep theirs
Nearest(g, c) ==
    CHOOSE d \in Cells :
        /\ ~IsNull(g[d])
        /\ \A e \in Cells : ~IsNull(g[e]) =>
              \/ Dist(c, d) < Dist(c, e)
              \/ (Dist(c, d) = Dist(c, e) /\ d <= e)

Grow(g) ==
    [c \in Cells |->
        IF ~IsNull(g[c]) THEN g[c]
        ELSE IF \A d \in Cells : IsNull(g[d]) THEN Null
        ELSE g[Nearest(g, c)]]

\* r.slope.aspect is a 3x3 moving window: the border cells of its outputs are
\* null.  The slope of the cells inside is any angle, zero (flat) included;
\* aspect, dx and dy are functions of the input that the model leaves
\* uninterpreted.
SlopeVals == {Zero, Sym("slope")}

Window(kind, src, sv) ==
    [c \in Cells |->
        IF c \in Border \/ IsNull(src[c]) THEN Null
        ELSE IF kind = "slope" THEN sv[c]
        ELSE IF kind = "aspect" THEN <<"aspect", src[c]>>
        ELSE IF kind = "dx" THEN <<"ddx", src[c]>>
        ELSE <<"ddy", src[c]>>]

\* r.watershed -a: the absolute flow accumulation, any count (the model gives
\* the cells inside the same one)
FlowVals == {Zero, Sym("flowacc")}

\* g.region -g: nsres of the current region
Resolutions == {"1", "10"}

(***************************************************************************)
(* Options and initial workspace                                           *)
(***************************************************************************)
Intensities == {"20", "50"}
Durations == {"5"}
Exponents == {<<"1.5", "1.2">>, <<"2", "1">>}

\* the grid names the scripts use for their own intermediate grids
ScratchNames ==
    {"rain_energy", "rain_volume", "erosivity", "r_factor", "c_factor",
     "k_factor", "slope", "aspect", "flowacc", "qsx", "qsy", "qsxdx", "qsydy",
     "grow_slope", "grow_aspect", "grow_qsxdx", "grow_qsydy", "sedflow",
     "sediment_flux", "rain_intensity"}

\* the option values of r.erosion.py (lines 25-157); "" is an option not given
Options(outNames) ==
    [script : {"r.erosion"},
     elevation : {"elevation"},
     model : {"rusle", "usped"},
     erosion : outNames,
     flow_accumulation : outNames,
     ls_factor : outNames,
     rain_intensity : Intensities \cup {""},
     rain_duration : Durations \cup {""},
     r_factor : {"", "user_r"},
     k_factor : {"", "user_k"},
     c_factor : {"", "user_c"},
     r_factor_value : {"310.0"},
     k_factor_value : {"0.25"},
     c_factor_value : {"0.1"},
     m_coeff : {e[1] : e \in Exponents},
     n_coeff : {e[2] : e \in Exponents}]

\* r.erosion.rfactor.py takes no options
RFactorOptions ==
    [script |-> "r.erosion.rfactor", elevation |-> "", model |-> "",
     erosion |-> "", flow_accumulation |-> "", ls_factor |-> "",
     rain_intensity |-> "", rain_duration |-> "", r_factor |-> "",
     k_factor |-> "", c_factor |-> "", r_factor_value |-> "",
     k_factor_value |-> "", c_factor_value |-> "", m_coeff |-> "",
     n_coeff |-> ""]

DefaultOutputs(o) ==
    /\ o.erosion = "erosion"
    /\ o.flow_accumulation = "flow_accumulation"
    /\ o.ls_factor = "ls_factor"

\* the grids the user names as inputs exist before the run
InputNames(o) == {o.elevation, o.r_factor, o.k_factor, o.c_factor} \ {""}

Constant(t) == [c \in Cells |-> t]

\* the workspace before the run: the input grids and, when stale, grids left
\* under the scratch names by an earlier run
Workspace(o, stale) ==
    [x \in InputNames(o) \cup (IF stale THEN ScratchNames ELSE {}) |->
        IF x \in InputNames(o) THEN Constant(Sym(x)) ELSE Constant(Sym("stale"))]

NoError == [tool |-> "", line |-> 0]

InitWith(o, stale) ==
    /\ opts = o
    /\ grids = Workspace(o, stale)
    /\ pc = 1
    /\ status = "running"
    /\ registered = <<>>
    /\ exitCode = -1
    /\ error = NoError
    /\ res = ""
    /\ written = {}
    /\ last = Workspace(o, stale)
    /\ prov = [x \in DOMAIN Workspace(o, stale) |->
                  IF x \in InputNames(o) THEN "user" ELSE "stale"]
    /\ trace = <<>>
    /\ cleanupCalls = 0

Init ==
    \E o \in Options({"erosion", "flow_accumulation", "ls_factor"}) \cup {RFactorOptions},
       stale \in BOOLEAN :
        /\ o.script = "r.erosion" =>
              /\ DefaultOutputs(o)
              /\ <<o.m_coeff, o.n_coeff>> \in Exponents
        /\ InitWith(o, stale)

(***************************************************************************)
(* Execution                                                               *)
(***************************************************************************)
\* the command sequence of the script that runs
Program ==
    IF opts.script = "r.erosion" THEN main(opts, res) ELSE rfactor_main

\* the function registered with atexit under a name
Handler(h) == IF h = "cleanup" THEN cleanup ELSE rfactor_cleanup

Cur == Program[pc]

\* the tools run through gscript.run_command / parse_command / write_command
ExternalTools ==
    {"r.mapcalc", "r.slope.aspect", "r.grow.distance", "r.watershed",
     "g.region", "r.colors", "g.remove", "r.univar"}

\* the grids a command reads
Reads(cmd) ==
    IF cmd.tool = "r.mapcalc" THEN MapsOf(cmd.expr)
    ELSE IF cmd.in # "" /\ cmd.tool \in ExternalTools THEN {cmd.in}
    ELSE {}

\* a command can succeed only when its expression parses and the grids it
\* reads exist
CanRun(cmd) ==
    /\ Reads(cmd) \subseteq DOMAIN grids
    /\ cmd.tool = "r.mapcalc" => WellFormed(cmd.expr)

Entry(cmd, ok) ==
    [tool |-> cmd.tool, fn |-> cmd.fn, line |-> cmd.line, reads |-> Reads(cmd),
     writes |-> IF ok THEN Range(cmd.outs) ELSE {},
     removes |-> IF ok THEN cmd.names ELSE {},
     rawReads |-> {x \in Reads(cmd) \cap DOMAIN prov : prov[x] = "window"},
     grownReads |-> {x \in Reads(cmd) \cap DOMAIN prov : prov[x] = "grown"},
     absent |-> cmd.names \ DOMAIN grids,
     ok |-> ok]

\* cmd, the command the script is about to issue, is one of tool
Issues(cmd, tool) == cmd.tool = tool

\* cmd succeeded and stored the grids gs with provenance ps
Store(cmd, gs, ps) ==
    /\ grids' = WriteOuts(grids, cmd.outs, gs)
    /\ last' = WriteOuts(last, cmd.outs, gs)
    /\ prov' = WriteOuts(prov, cmd.outs, ps)
    /\ written' = written \cup Range(cmd.outs)
    /\ pc' = pc + 1
    /\ trace' = Append(trace, Entry(cmd, TRUE))
    /\ UNCHANGED <<opts, status, registered, exitCode, error, cleanupCalls>>

\* r.mapcalc evaluates the expression in every cell
RMapcalc ==
    /\ status = "running"
    /\ \E cmd \in {Cur} :
          /\ Issues(cmd, "r.mapcalc")
          /\ CanRun(cmd)
          /\ \E g \in {[c \in Cells |-> Eval(cmd.expr, grids, c)]} :
                Store(cmd, <<g>>,
                      <<IF cmd.expr[1] = "map" THEN prov[cmd.expr[2]] ELSE "calc">>)
    /\ UNCHANGED res

RSlopeAspect ==
    /\ status = "running"
    /\ \E cmd \in {Cur} :
          /\ Issues(cmd, "r.slope.aspect")
          /\ CanRun(cmd)
          /\ \E sv \in [Interior -> SlopeVals] :
             \E gs \in {[i \in DOMAIN cmd.outs |->
                            Window(cmd.kinds[i], grids[cmd.in], sv)]} :
                Store(cmd, gs, [i \in DOMAIN cmd.outs |-> "window"])
    /\ UNCHANGED res

RGrowDistance ==
    /\ status = "running"
    /\ \E cmd \in {Cur} :
          /\ Issues(cmd, "r.grow.distance")
          /\ CanRun(cmd)
          /\ \E g \in {Grow(grids[cmd.in])} : Store(cmd, <<g>>, <<"grown">>)
    /\ UNCHANGED res

RWatershed ==
    /\ status = "running"
    /\ \E cmd \in {Cur} :
          /\ Issues(cmd, "r.watershed")
          /\ CanRun(cmd)
          /\ \E fv \in FlowVals :
             \E g \in {[c \in Cells |->
                          IF c \in Interior THEN fv ELSE Sym("flowacc")]} :
                Store(cmd, <<g>>, <<"accumulation">>)
    /\ UNCHANGED res

\* cmd, which writes no grid, succeeded
Skip(cmd) ==
    /\ pc' = pc + 1
    /\ trace' = Append(trace, Entry(cmd, TRUE))
    /\ UNCHANGED <<opts, grids, status, registered, exitCode, error, written,
                   last, prov, cleanupCalls>>

GRegionQuery ==
    /\ status = "running"
    /\ \E cmd \in {Cur} :
          /\ Issues(cmd, "g.region")
          /\ Skip(cmd)
    /\ res' \in Resolutions

RColors ==
    /\ status = "running"
    /\ \E cmd \in {Cur} :
          /\ Issues(cmd, "r.colors")
          /\ CanRun(cmd)
          /\ Skip(cmd)
    /\ UNCHANGED res

RUnivar ==
    /\ status = "running"
    /\ \E cmd \in {Cur} :
          /\ Issues(cmd, "r.univar")
          /\ CanRun(cmd)
          /\ Skip(cmd)
    /\ UNCHANGED res

\* the g.remove at the end of event_based_r_factor, rusle and usped
GRemoveInline ==
    /\ status = "running"
    /\ \E cmd \in {Cur} :
          /\ Issues(cmd, "g.remove")
          /\ grids' = Remove(grids, cmd.names)
          /\ prov' = Remove(prov, cmd.names)
          /\ trace' = Append(trace, Entry(cmd, TRUE))
    /\ pc' = pc + 1
    /\ UNCHANGED <<opts, status, registered, exitCode, error, res, written, last,
                   cleanupCalls>>

\* an external command exits with an error (always, when it cannot run):
\* run_command raises CalledModuleError, nothing catches it, the interpreter
\* reports it and starts to shut down
RaiseCalledModuleError ==
    /\ status = "running"
    /\ \E cmd \in {Cur} :
          /\ cmd.tool \in ExternalTools
          /\ error' = [tool |-> cmd.tool, line |-> cmd.line]
          /\ trace' = Append(trace, Entry(cmd, FALSE))
    /\ status' = "finalizing"
    /\ exitCode' = 1
    /\ UNCHANGED <<opts, grids, pc, registered, res, written, last, prov,
                   cleanupCalls>>

\* atexit.register(cleanup)
RegisterAtexit ==
    /\ status = "running"
    /\ \E cmd \in {Cur} :
          /\ Issues(cmd, "atexit.register")
          /\ registered' = Append(registered, cmd.in)
    /\ pc' = pc + 1
    /\ UNCHANGED <<opts, grids, status, exitCode, error, res, written, last, prov,
                   trace, cleanupCalls>>

\* sys.exit(0)
Exit ==
    /\ status = "running"
    /\ \E cmd \in {Cur} : Issues(cmd, "sys.exit")
    /\ status' = "finalizing"
    /\ exitCode' = 0
    /\ UNCHANGED <<opts, grids, pc, registered, error, res, written, last, prov,
                   trace, cleanupCalls>>

\* interpreter shutdown runs the registered handler: cleanup() issues its
\* g.remove, which succeeds or fails; a failure is caught by the except clause
\* of cleanup(), otherwise it becomes the error of the run
Cleanup ==
    /\ status = "finalizing"
    /\ registered # <<>>
    /\ \E h \in {Handler(registered[Len(registered)])}, ok \in BOOLEAN :
          /\ grids' = IF ok THEN Remove(grids, h.cmd.names) ELSE grids
          /\ prov' = IF ok THEN Remove(prov, h.cmd.names) ELSE prov
          /\ trace' = Append(trace, Entry(h.cmd, ok))
          /\ IF ok \/ "CalledModuleError" \in h.catches
             THEN UNCHANGED <<exitCode, error>>
             ELSE /\ exitCode' = 1
                  /\ error' = [tool |-> h.cmd.tool, line |-> h.cmd.line]
    /\ registered' = SubSeq(registered, 1, Len(registered) - 1)
    /\ cleanupCalls' = cleanupCalls + 1
    /\ UNCHANGED <<opts, pc, status, res, written, last>>

\* the process is gone
ProcessExit ==
    /\ status = "finalizing"
    /\ registered = <<>>
    /\ status' = "exited"
    /\ UNCHANGED <<opts, grids, pc, registered, exitCode, error, res, written,
                   last, prov, trace, cleanupCalls>>

Next ==
    \/ RMapcalc
    \/ RSlopeAspect
    \/ RGrowDistance
    \/ RWatershed
    \/ GRegionQuery
    \/ RColors
    \/ RUnivar
    \/ GRemoveInline
    \/ RaiseCalledModuleError
    \/ RegisterAtexit
    \/ Exit
    \/ Cleanup
    \/ ProcessExit

Spec == Init /\ [][Next]_vars

(***************************************************************************)
(* Properties                                                              *)
(***************************************************************************)
Erosion == opts.script = "r.erosion"
Exited == status = "exited"
Succeeded == Exited /\ exitCode = 0
Entries == {trace[i] : i \in DOMAIN trace}

\* the scratch grids of a run of r.erosion.py
RunScratch ==
    {"rain_energy", "rain_volume", "erosivity", "slope", "aspect", "flowacc",
     "qsx", "qsy", "qsxdx", "qsydy", "grow_slope", "grow_aspect", "grow_qsxdx",
     "grow_qsydy", "sedflow", "sediment_flux"}

\* C1: whenever a run of r.erosion.py has ended, with success or with the error
\* of a failed command, the removal of the scratch grids was attempted, no
\* scratch grid written by the run is left in the workspace, and a failed run
\* reports the error of the command that failed.
C1_ScratchRemovedOnEveryExit ==
    (Erosion /\ Exited) =>
        /\ cleanupCalls >= 1
        /\ written \cap RunScratch \cap DOMAIN grids = {}
        /\ \A e \in Entries :
              (~e.ok /\ e.fn # "cleanup") => error = [tool |-> e.tool, line |-> e.line]

\* C2: whenever a run of r.erosion.py has ended, with success or with an
\* error, cleanup() was invoked exactly once.
C2_CleanupExactlyOnce ==
    (Erosion /\ Exited) => cleanupCalls = 1

\* C3: after a successful run of r.erosion.py the grids written by the run
\* that still exist are only the ones named by the erosion, flow_accumulation
\* and ls_factor options.
C3_OnlyOutputsSurvive ==
    (Erosion /\ Succeeded) =>
        (written \cap DOMAIN grids)
            \subseteq {opts.erosion, opts.flow_accumulation, opts.ls_factor}

\* the steps that succeeded before step j and wrote the name x
EarlierWrites(j, x) == {i \in 1..(j - 1) : x \in trace[i].writes}

\* the grid that r.grow.distance fills for a moving-window grid
GrownName(x) ==
    CASE x = "slope" -> "grow_slope"
      [] x = "aspect" -> "grow_aspect"
      [] x = "qsxdx" -> "grow_qsxdx"
      [] x = "qsydy" -> "grow_qsydy"
      [] OTHER -> ""

WindowNames == {"slope", "aspect", "qsxdx", "qsydy"}

C5_RemovalOfAbsentGridsIsHarmless ==
    [][ /\ (status = "running" /\ Cur.tool = "g.remove") =>
              Cur.names \subseteq DOMAIN grids
        /\ (status = "finalizing" /\ registered # <<>>) =>
              LET names == Handler(registered[Len(registered)]).cmd.names IN
              /\ exitCode' = exitCode
              /\ error' = error
              /\ \/ grids' = grids
                 \/ grids' = Remove(grids, names)
              /\ names \cap DOMAIN grids = {} => grids' = grids
      ]_vars

\* cleanup() ran on grids that were absent, its g.remove failed, and the run
\* still ended with exit code 0
C5_Witness ==
    /\ Exited
    /\ exitCode = 0
    /\ \E e \in Entries : e.fn = "cleanup" /\ e.absent # {} /\ ~e.ok

\* C6: in rusle and usped no r.mapcalc formula is evaluated on a grid as
\* r.slope.aspect left it: every moving-window grid (slope, aspect, qsxdx,
\* qsydy) that a formula reads holds its border-grown version.
C6_FormulasReadGrownGrids ==
    \A e \in Entries :
        (e.tool = "r.mapcalc" /\ e.fn \in {"rusle", "usped"}) =>
            /\ e.rawReads = {}
            /\ (e.reads \cap WindowNames) \subseteq e.grownReads

\* usped has computed the divergence from the grown derivatives
C6_Witness ==
    \E e \in Entries :
        /\ e.tool = "r.mapcalc" /\ e.fn = "usped" /\ e.ok
        /\ e.grownReads = {"qsxdx", "qsydy"}

\* C7: the event-based R factor is used exactly when rain_intensity and
\* rain_duration are both given, and is never started without rain_duration;
\* otherwise the model reads the r_factor grid of the user, unchanged, when
\* one is given, and else a constant grid of r_factor_value.
C7_RFactorSelection ==
    Erosion =>
        /\ (\E e \in Entries : e.fn = "event_based_r_factor") =>
              (opts.rain_intensity # "" /\ opts.rain_duration # "")
        /\ \A e \in Entries :
              (e.ok /\ "sedflow" \in e.writes) =>
                  IF opts.rain_intensity # "" /\ opts.rain_duration # ""
                  THEN /\ "r_factor" \in e.reads
                       /\ \E f \in Entries : f.fn = "event_based_r_factor"
                  ELSE IF opts.r_factor # ""
                  THEN /\ opts.r_factor \in e.reads
                       /\ opts.r_factor \notin written
                  ELSE /\ "r_factor" \in e.reads
                       /\ last["r_factor"] = Constant(Num(Canon(opts.r_factor_value)))

\* rusle has written its topographic factor
RusleLsWritten ==
    /\ Erosion
    /\ \E e \in Entries : e.fn = "rusle" /\ e.line = 376 /\ e.ok

\* (m+1) * (f/22.1)^m
FlowTerm(f) ==
    Norm(Mul(Add(Num(opts.m_coeff), One),
             Pow(Div(f, Num("22.1")), Num(opts.m_coeff))))

\* C8 as stated: in every cell where the slope is 0 the ls_factor of rusle is
\* (m+1) * (flowacc/22.1)^m, flowacc read as the accumulation used by the
\* formula or as the count of r.watershed.
C8_FlatLsIsFlowTerm ==
    RusleLsWritten =>
        \A c \in Cells :
            IsZero(last["slope"][c]) =>
                \/ last[opts.ls_factor][c] = FlowTerm(last[opts.flow_accumulation][c])
                \/ last[opts.ls_factor][c] = FlowTerm(last["flowacc"][c])

\* C8 amended: in every cell where the slope is 0 the ls_factor of rusle is
\* 0, whatever the flow and the positive exponents, because the factor
\* (sin(slope)/5.14)^n is 0 there.
C8_FlatLsIsZero ==
    RusleLsWritten =>
        \A c \in Cells :
            IsZero(last["slope"][c]) => IsZero(last[opts.ls_factor][c])

\* a flat cell with flow
C8_Witness ==
    /\ RusleLsWritten
    /\ \E c \in Cells :
          /\ IsZero(last["slope"][c])
          /\ ~IsZero(last[opts.flow_accumulation][c])
          /\ IsZero(last[opts.ls_factor][c])

\* event_based_r_factor of either script has returned
EventReturned ==
    \E e \in Entries :
        /\ e.fn \in {"event_based_r_factor", "rfactor.event_based_r_factor"}
        /\ e.tool = "g.remove" /\ e.ok

\* the arguments of event_based_r_factor: the options of r.erosion.py, or the
\* value of the rain_intensity grid and the interval of r.erosion.rfactor.py
RainInputs ==
    IF Erosion THEN <<opts.rain_intensity, opts.rain_duration>>
    ELSE <<"50.0", "5.0">>

\* erosivity / (duration / 525600)
ClosedFormR(intensity, duration) ==
    LET I == Num(intensity)
        D == Num(duration)
        energy == Mul(Num("0.29"),
                      Sub(One, Mul(Num("0.72"), Exp(Mul(Num("-0.05"), I)))))
        volume == Mul(I, Div(D, Num("60")))
        erosivity == Mul(Mul(energy, volume), I)
    IN  Norm(Div(erosivity, Div(D, Num("525600"))))

\* C9: when event_based_r_factor returns, in r.erosion.py and in
\* r.erosion.rfactor.py, the r_factor grid holds in every cell
\* erosivity / (duration / 525600) of the closed form, whatever the scratch
\* grids held before; equal inputs give equal grids in the two scripts.
C9_RFactorClosedForm ==
    EventReturned =>
        /\ "r_factor" \in DOMAIN grids
        /\ grids["r_factor"] = Constant(ClosedFormR(RainInputs[1], RainInputs[2]))

\* event_based_r_factor of r.erosion.py returned in a workspace that held
\* stale scratch grids
C9_Witness ==
    /\ Erosion
    /\ EventReturned
    /\ "r_factor" \in DOMAIN grids
    /\ "slope" \in DOMAIN prov /\ prov["slope"] = "stale"

\* rusle has run to its end
RusleDone ==
    /\ Erosion
    /\ \E e \in Entries : e.fn = "rusle" /\ e.tool = "g.remove" /\ e.ok

\* C10: once rusle has completed, in every cell
\*   flow_accumulation = flowacc * resolution,
\*   ls_factor = (m+1) * (flow_accumulation/22.1)^m * (sin(grown slope)/5.14)^n,
\*   erosion = r_factor * k_factor * ls_factor * c_factor * 1000 / 10000
\* and nothing else is applied to erosion.
C10_RusleOutputs ==
    RusleDone =>
        /\ {opts.flow_accumulation, opts.ls_factor, opts.erosion} \subseteq DOMAIN grids
        /\ \A c \in Cells :
              LET fa == grids[opts.flow_accumulation][c]
                  ls == grids[opts.ls_factor][c]
                  r == grids[RFactorSource(opts).ret][c]
                  k == grids[KFactorSource(opts).ret][c]
                  cf == grids[CFactorSource(opts).ret][c]
              IN  /\ fa = Norm(Mul(last["flowacc"][c], Num(res)))
                  /\ ls = Norm(Mul(Mul(Add(Num(opts.m_coeff), One),
                                       Pow(Div(fa, Num("22.1")), Num(opts.m_coeff))),
                                   Pow(Div(Sin(last["grow_slope"][c]), Num("5.14")),
                                       Num(opts.n_coeff))))
                  /\ grids[opts.erosion][c] =
                        Norm(Div(Mul(Mul(Mul(Mul(r, k), ls), cf), Num("1000")),
                                 Num("10000")))

\* a successful rusle run over a cell with slope and flow
C10_Witness ==
    /\ RusleDone
    /\ Succeeded
    /\ \E c \in Interior :
          /\ ~IsZero(last["grow_slope"][c])
          /\ ~IsZero(last["flowacc"][c])
          /\ ~IsZero(grids[opts.erosion][c])

\* usped has run to its end
UspedDone ==
    /\ Erosion
    /\ \E e \in Entries : e.fn = "usped" /\ e.tool = "g.remove" /\ e.ok

\* r_factor * k_factor * c_factor * ls_factor * 1000 / 10000 in cell c, with
\* ls_factor = flow_accumulation^m * sin(grown slope)^n
UspedFlux(c) ==
    LET fa == grids[opts.flow_accumulation][c]
        ls == Norm(Mul(Pow(fa, Num(opts.m_coeff)),
                       Pow(Sin(last["grow_slope"][c]), Num(opts.n_coeff))))
        r == grids[RFactorSource(opts).ret][c]
        k == grids[KFactorSource(opts).ret][c]
        cf == grids[CFactorSource(opts).ret][c]
    IN  Norm(Div(Mul(Mul(Mul(Mul(r, k), cf), ls), Num("1000")), Num("10000")))

\* the border-grown derivative (kind dx or dy) of the grid g
GrownDerivative(kind, g) == Grow(Window(kind, g, [c \in Interior |-> Zero]))

\* C11: once usped has completed, in every cell erosion = qsxdx + qsydy,
\* qsxdx the border-grown x-derivative of sediment_flux * cos(aspect) and
\* qsydy the border-grown y-derivative of sediment_flux * sin(aspect), with
\* sediment_flux = r_factor * k_factor * c_factor * ls_factor * 1000 / 10000
\* (the converted flux, not the sediment flow capacity) and
\* ls_factor = flow_accumulation^m * sin(slope)^n.
C11_UspedOutputs ==
    UspedDone =>
        /\ {opts.flow_accumulation, opts.ls_factor, opts.erosion} \subseteq DOMAIN grids
        /\ LET aspect == last["grow_aspect"]
               qsx == [c \in Cells |-> Norm(Mul(UspedFlux(c), Cos(aspect[c])))]
               qsy == [c \in Cells |-> Norm(Mul(UspedFlux(c), Sin(aspect[c])))]
               qsxdx == GrownDerivative("dx", qsx)
               qsydy == GrownDerivative("dy", qsy)
           IN  \A c \in Cells :
                  /\ grids[opts.ls_factor][c] =
                        Norm(Mul(Pow(grids[opts.flow_accumulation][c], Num(opts.m_coeff)),
                                 Pow(Sin(last["grow_slope"][c]), Num(opts.n_coeff))))
                  /\ grids[opts.erosion][c] = Norm(Add(qsxdx[c], qsydy[c]))

\* a successful usped run over a cell with slope and flow
C11_Witness ==
    /\ UspedDone
    /\ Succeeded
    /\ \E c \in Interior :
          /\ ~IsZero(last["grow_slope"][c])
          /\ ~IsZero(last["flowacc"][c])
          /\ ~IsNull(grids[opts.erosion][c])
          /\ ~IsNull(grids[opts.erosion][1])

\* C12: in every run of r.erosion.py each step that reads a grid by name is
\* issued after the grid was written by an earlier step of the run or was
\* given by the user as an input, and before any step that removes it; a
\* step that failed is the last step of the run.
C12_StepsReadExistingGridsInOrder ==
    Erosion =>
        /\ \A j \in DOMAIN trace :
              /\ \A x \in trace[j].reads :
                    /\ x \in InputNames(opts) \/ EarlierWrites(j, x) # {}
                    /\ \A i \in 1..(j - 1) : x \notin trace[i].removes
              /\ ~trace[j].ok => j = Len(trace)
        /\ (\E e \in Entries : ~e.ok /\ e.fn # "cleanup") => status # "running"

\* a run that failed after steps that read grids written by the run, in a
\* workspace with stale scratch grids
C12_Witness ==
    /\ Erosion
    /\ Exited
    /\ exitCode = 1
    /\ Len(trace) >= 4
    /\ ~trace[Len(trace)].ok
    /\ \E j \in 1..(Len(trace) - 1) : trace[j].reads \cap written # {}
    /\ "aspect" \in DOMAIN prov /\ prov["aspect"] = "stale"

(***************************************************************************)
(* Runs whose grid names are free                                          *)
(***************************************************************************)
\* names the user may give to an output: the defaults, or names that the
\* scripts also use for their scratch grids
OutputNames == {"erosion", "flow_accumulation", "ls_factor", "slope", "sedflow"}

\* names the user may give to the elevation input
ElevationNames == {"elevation", "flowacc"}

\* a run of r.erosion.py with any of these names (constant R, K and C
\* factors, default exponents), or a run of r.erosion.rfactor.py
InitNames ==
    \/ \E o \in Options(OutputNames), e \in ElevationNames :
          /\ o.rain_intensity = "" /\ o.rain_duration = ""
          /\ o.r_factor = "" /\ o.k_factor = "" /\ o.c_factor = ""
          /\ o.m_coeff = "1.5" /\ o.n_coeff = "1.2"
          /\ InitWith([o EXCEPT !.elevation = e], FALSE)
    \/ InitWith(RFactorOptions, FALSE)

SpecNames == InitNames /\ [][Next]_vars

\* C13: whenever r.erosion.py has exited through sys.exit(0), exactly one of
\* rusle and usped has run to its end and the grids named by the erosion,
\* flow_accumulation and ls_factor options exist, whatever names were chosen.
C13_OutputsExistAfterExit ==
    (Erosion /\ Succeeded) =>
        /\ RusleDone # UspedDone
        /\ {opts.erosion, opts.flow_accumulation, opts.ls_factor} \subseteq DOMAIN grids

====
